---- MODULE Spec2Model ----
(***************************************************************************)
(* A model of the VM definition and provisioning manager of pVMs           *)
(* (src/plugins/PocketVMs/vmmanager.cpp): the record codec                 *)
(* (machineToJSON, listEntryForJSON, fromQml), the VM store (refreshVMs,   *)
(* createVM, editVM, deleteVM) and the firmware provisioner               *)
(* (resetEFIFirmware, resetEFINVRAM).                                      *)
(*                                                                         *)
(* Four specifications share the state: Spec (the store: createVM, editVM, *)
(* deleteVM, refreshVMs from an empty storage root), ScanSpec (refreshVMs  *)
(* and deleteVM over a storage root holding any mix of metadata files),    *)
(* FirmwareSpec (the firmware resets called on their own) and CodecSpec    *)
(* (the codec functions applied to records and files of bounded sets).     *)
(*                                                                         *)
(* The file system and the subprocess answer with the outcomes the code    *)
(* tests for: a removal, a copy or an open can fail, qemu-img can fail to  *)
(* start, exit with any status or outlast the wait.  Writes to an opened   *)
(* file and mkpath, whose results the code does not look at, succeed.      *)
(*                                                                         *)
(* Strings (QString, QByteArray text) are sequences of tokens: a token is  *)
(* one character where the code looks inside a string (the decimal text of *)
(* cores and mem) and one opaque piece of text elsewhere (a path           *)
(* component, a name).  The empty QString is << >>.                        *)
(***************************************************************************)
EXTENDS Integers, Sequences, FiniteSets, TLC

(***************************************************************************)
(* Bounds of the model.                                                    *)
(***************************************************************************)
\* Number of directory names (UUIDs) available under the storage root.
MaxDirs == 2
\* cores of the records given to the codec range over -MaxInt..MaxInt (and
\* the ends of the int range).
MaxInt == 12

(***************************************************************************)
(* Program constants.                                                      *)
(***************************************************************************)
KEY_STORAGE == "storage"
KEY_DESC == "description"
KEY_ARCH == "arch"
KEY_CORES == "cores"
KEY_MEM == "mem"
KEY_DVD == "dvd"
KEY_HDD == "hdd"
KEY_FLASH1 == "flash1"
KEY_FLASH2 == "flash2"
KEY_ENABLEFILESHARING == "enableFileSharing"
KEY_VIRGLRENDERER == "useVirglrenderer"
KEY_EXTERNAL_WINDOW_ONLY == "externalWindowOnly"

VALID_ARCHES == { <<"x86_64">>, <<"aarch64">> }

\* Mutant: the required keys tested in the order machineToJSON writes them
\* (dvd before hdd).
RequiredKeys_EncoderOrder ==
    << KEY_DESC, KEY_ARCH, KEY_CORES, KEY_MEM, KEY_DVD, KEY_HDD, KEY_FLASH1, KEY_FLASH2 >>

\* The required keys, in the order listEntryForJSON tests them.
RequiredKeys ==
    << KEY_DESC, KEY_ARCH, KEY_CORES, KEY_MEM, KEY_HDD, KEY_DVD, KEY_FLASH1, KEY_FLASH2 >>

OptionalKeys == { KEY_VIRGLRENDERER, KEY_ENABLEFILESHARING, KEY_EXTERNAL_WINDOW_ONLY }

\* The range of a C int; QString::toInt yields 0 outside it.
INT_MAX == 2147483647

(***************************************************************************)
(* Values: QJsonValue and QVariant.  One record shape for every type, t    *)
(* the type tag, s the text of a string, b the value of a bool.            *)
(***************************************************************************)
StrVal(str) == [t |-> "string", s |-> str, b |-> FALSE]
BoolVal(bool) == [t |-> "bool", s |-> << >>, b |-> bool]
NumVal == [t |-> "number", s |-> << >>, b |-> FALSE]
NullVal == [t |-> "null", s |-> << >>, b |-> FALSE]
\* QVariantMap::value / QJsonObject::value of a key that is not there.
InvalidVal == [t |-> "invalid", s |-> << >>, b |-> FALSE]

\* A map with no key (an empty QVariantMap or QJsonObject).
EmptyMap == [k \in {} |-> InvalidVal]

\* map.insert(key, value)
Insert(map, key, value) ==
    [k \in (DOMAIN map) \cup {key} |-> IF k = key THEN value ELSE map[k]]

\* map.value(key)
Value(map, key) == IF key \in DOMAIN map THEN map[key] ELSE InvalidVal

\* QJsonValue::toString(): the string, or the null QString for any other type.
JsonToString(v) == IF v.t = "string" THEN v.s ELSE << >>

\* QJsonValue::toBool(): the bool, or false for any other type.
JsonToBool(v) == IF v.t = "bool" THEN v.b ELSE FALSE

(***************************************************************************)
(* QString::number(int) and QString::toInt().                              *)
(***************************************************************************)
DigitChars == << "0", "1", "2", "3", "4", "5", "6", "7", "8", "9" >>

DigitValue(c) == CHOOSE i \in 0..9 : DigitChars[i + 1] = c

IsDigit(c) == \E i \in 0..9 : DigitChars[i + 1] = c

RECURSIVE Digits(_)
Digits(n) ==
    IF n < 10 THEN << DigitChars[n + 1] >>
    ELSE Digits(n \div 10) \o << DigitChars[(n % 10) + 1] >>

\* QString::number(n), base 10.
QStringNumber(n) == IF n < 0 THEN << "-" >> \o Digits(0 - n) ELSE Digits(n)

\* The value of a run of digits, or -1 when a token is no digit, the run is
\* empty or the value exceeds INT_MAX.
RECURSIVE ParseDigits(_, _)
ParseDigits(str, acc) ==
    IF str = << >> THEN acc
    ELSE IF ~IsDigit(Head(str)) THEN -1
    ELSE IF acc > (INT_MAX - DigitValue(Head(str))) \div 10 THEN -1
    ELSE ParseDigits(Tail(str), acc * 10 + DigitValue(Head(str)))

\* QString::toInt(): the number, or 0 when the text is no number of the range.
QStringToInt(str) ==
    LET neg == str # << >> /\ Head(str) = "-"
        body == IF str # << >> /\ Head(str) \in {"-", "+"} THEN Tail(str) ELSE str
        mag == IF body = << >> THEN -1 ELSE ParseDigits(body, 0)
    IN  IF mag = -1 THEN 0 ELSE IF neg THEN 0 - mag ELSE mag

\* QVariant::toString(): a bool converts to "true" or "false".
VariantToString(v) ==
    IF v.t = "string" THEN v.s
    ELSE IF v.t = "bool" THEN (IF v.b THEN << "true" >> ELSE << "false" >>)
    ELSE << >>

\* QVariant::toInt(): a string is parsed, a bool is 0 or 1.
VariantToInt(v) ==
    IF v.t = "string" THEN QStringToInt(v.s)
    ELSE IF v.t = "bool" THEN (IF v.b THEN 1 ELSE 0)
    ELSE 0

\* QVariant::toBool(): a string is true unless empty, "0" or "false".
VariantToBool(v) ==
    IF v.t = "bool" THEN v.b
    ELSE IF v.t = "string" THEN v.s \notin { << >>, << "0" >>, << "false" >> }
    ELSE FALSE

(***************************************************************************)
(* Paths.  The storage root is AppDataLocation; a VM directory is          *)
(* <root>/<uuid>, the uuid one of the names 1..MaxDirs.                    *)
(***************************************************************************)
Dirs == 1..MaxDirs

DirPath(d) == << "appdata", "/", ToString(d) >>

\* QStringLiteral("%1/<file>").arg(dir)
FilePath(dir, file) == dir \o << "/", file >>

DirPaths == { DirPath(d) : d \in Dirs }

\* The directory a storage path names (0: none under the storage root).
DirOf(storage) ==
    IF storage \in DirPaths THEN CHOOSE d \in Dirs : DirPath(d) = storage ELSE 0

(***************************************************************************)
(* File contents.  A metadata file is JSON text: kind tells what           *)
(* QJsonDocument::fromJson makes of it (empty and malformed text are parse *)
(* errors, an array is a document that is no object), obj holds the        *)
(* members of an object.                                                   *)
(***************************************************************************)
NoFile == [kind |-> "nofile", obj |-> EmptyMap]
\* A file that QFile::open(ReadOnly) cannot open.
UnreadableFile == [kind |-> "unreadable", obj |-> EmptyMap]
EmptyDoc == [kind |-> "empty", obj |-> EmptyMap]
MalformedDoc == [kind |-> "malformed", obj |-> EmptyMap]
ArrayDoc == [kind |-> "array", obj |-> EmptyMap]
ObjectDoc(members) == [kind |-> "object", obj |-> members]

(***************************************************************************)
(* Machine: the in-memory VM record (vmmanager.h), as fromQml fills it.    *)
(***************************************************************************)
NewMachine ==
    [storage |-> << >>, name |-> << >>, arch |-> << >>, cores |-> 0, mem |-> 0,
     hdd |-> << >>, dvd |-> << >>, flash1 |-> << >>, flash2 |-> << >>,
     useVirglrenderer |-> FALSE, enableFileSharing |-> FALSE,
     externalWindowOnly |-> FALSE]

\* VMManager::fromQml
fromQml(vm) ==
    [storage |-> VariantToString(Value(vm, KEY_STORAGE)),
     name |-> VariantToString(Value(vm, KEY_DESC)),
     arch |-> VariantToString(Value(vm, KEY_ARCH)),
     cores |-> VariantToInt(Value(vm, KEY_CORES)),
     mem |-> VariantToInt(Value(vm, KEY_MEM)),
     hdd |-> VariantToString(Value(vm, KEY_HDD)),
     dvd |-> VariantToString(Value(vm, KEY_DVD)),
     flash1 |-> VariantToString(Value(vm, KEY_FLASH1)),
     flash2 |-> VariantToString(Value(vm, KEY_FLASH2)),
     useVirglrenderer |-> VariantToBool(Value(vm, KEY_VIRGLRENDERER)),
     enableFileSharing |-> VariantToBool(Value(vm, KEY_ENABLEFILESHARING)),
     externalWindowOnly |-> VariantToBool(Value(vm, KEY_EXTERNAL_WINDOW_ONLY))]

\* Mutant: cores and mem written as JSON numbers instead of decimal text.
machineToJSON_NumbersAsJson(machine) ==
    ObjectDoc(
        [k \in { KEY_DESC, KEY_ARCH, KEY_CORES, KEY_MEM, KEY_DVD, KEY_HDD,
                 KEY_FLASH1, KEY_FLASH2, KEY_VIRGLRENDERER,
                 KEY_ENABLEFILESHARING, KEY_EXTERNAL_WINDOW_ONLY } |->
            CASE k = KEY_DESC -> StrVal(machine.name)
              [] k = KEY_ARCH -> StrVal(machine.arch)
              [] k = KEY_CORES -> NumVal
              [] k = KEY_MEM -> NumVal
              [] k = KEY_DVD -> StrVal(machine.dvd)
              [] k = KEY_HDD -> StrVal(machine.hdd)
              [] k = KEY_FLASH1 -> StrVal(machine.flash1)
              [] k = KEY_FLASH2 -> StrVal(machine.flash2)
              [] k = KEY_VIRGLRENDERER -> BoolVal(machine.useVirglrenderer)
              [] k = KEY_ENABLEFILESHARING -> BoolVal(machine.enableFileSharing)
              [] k = KEY_EXTERNAL_WINDOW_ONLY -> BoolVal(machine.externalWindowOnly)])

\* VMManager::machineToJSON: cores and mem are written as decimal text.
machineToJSON(machine) ==
    ObjectDoc(
        [k \in { KEY_DESC, KEY_ARCH, KEY_CORES, KEY_MEM, KEY_DVD, KEY_HDD,
                 KEY_FLASH1, KEY_FLASH2, KEY_VIRGLRENDERER,
                 KEY_ENABLEFILESHARING, KEY_EXTERNAL_WINDOW_ONLY } |->
            CASE k = KEY_DESC -> StrVal(machine.name)
              [] k = KEY_ARCH -> StrVal(machine.arch)
              [] k = KEY_CORES -> StrVal(QStringNumber(machine.cores))
              [] k = KEY_MEM -> StrVal(QStringNumber(machine.mem))
              [] k = KEY_DVD -> StrVal(machine.dvd)
              [] k = KEY_HDD -> StrVal(machine.hdd)
              [] k = KEY_FLASH1 -> StrVal(machine.flash1)
              [] k = KEY_FLASH2 -> StrVal(machine.flash2)
              [] k = KEY_VIRGLRENDERER -> BoolVal(machine.useVirglrenderer)
              [] k = KEY_ENABLEFILESHARING -> BoolVal(machine.enableFileSharing)
              [] k = KEY_EXTERNAL_WINDOW_ONLY -> BoolVal(machine.externalWindowOnly)])

(***************************************************************************)
(* listEntryForJSON.  The result is the returned map, or the thrown        *)
(* message (a sequence of tokens): a throw discards the map built so far.  *)
(***************************************************************************)
Throw(msg) == [ok |-> FALSE, err |-> msg, map |-> EmptyMap]
Return(map) == [ok |-> TRUE, err |-> << >>, map |-> map]

\* "Missing '<key>'"
MissingMsg(key) == << "Missing '", key, "'" >>

\* Mutant: arch is read like the other keys, without the check against
\* VALID_ARCHES.
RECURSIVE RequiredFrom_NoArchCheck(_, _, _)
RequiredFrom_NoArchCheck(rootObject, ret, i) ==
    IF i > Len(RequiredKeys) THEN Return(ret)
    ELSE LET key == RequiredKeys[i]
             str == JsonToString(Value(rootObject, key))
         IN  IF key \notin DOMAIN rootObject THEN Throw(MissingMsg(key))
             ELSE RequiredFrom_NoArchCheck(rootObject, Insert(ret, key, StrVal(str)), i + 1)

\* Lines 265-298: the required keys one after the other, from the i-th on.
\* arch is checked against VALID_ARCHES as soon as it is read.
RECURSIVE RequiredFrom(_, _, _)
RequiredFrom(rootObject, ret, i) ==
    IF i > Len(RequiredKeys) THEN Return(ret)
    ELSE LET key == RequiredKeys[i]
             str == JsonToString(Value(rootObject, key))
         IN  IF key \notin DOMAIN rootObject THEN Throw(MissingMsg(key))
             ELSE IF key = KEY_ARCH /\ str \notin VALID_ARCHES
                  THEN Throw(<< "Invalid architecture" >>)
             ELSE RequiredFrom(rootObject, Insert(ret, key, StrVal(str)), i + 1)

\* Lines 300-318: useVirglrenderer and enableFileSharing are inserted as false
\* when absent; after externalWindowOnly the function returns, present or not,
\* and the insert of false that follows the return is never run.
OptionalArguments(rootObject, ret) ==
    LET r1 == IF KEY_VIRGLRENDERER \in DOMAIN rootObject
              THEN Insert(ret, KEY_VIRGLRENDERER,
                          BoolVal(JsonToBool(rootObject[KEY_VIRGLRENDERER])))
              ELSE Insert(ret, KEY_VIRGLRENDERER, BoolVal(FALSE))
        r2 == IF KEY_ENABLEFILESHARING \in DOMAIN rootObject
              THEN Insert(r1, KEY_ENABLEFILESHARING,
                          BoolVal(JsonToBool(rootObject[KEY_ENABLEFILESHARING])))
              ELSE Insert(r1, KEY_ENABLEFILESHARING, BoolVal(FALSE))
        r3 == IF KEY_EXTERNAL_WINDOW_ONLY \in DOMAIN rootObject
              THEN Insert(r2, KEY_EXTERNAL_WINDOW_ONLY,
                          BoolVal(JsonToBool(rootObject[KEY_EXTERNAL_WINDOW_ONLY])))
              ELSE r2
    IN  r3

\* VMManager::listEntryForJSON(path, storage); file is what QFile(path) holds.
listEntryForJSON(file, path, storage) ==
    LET ret == Insert(Insert(EmptyMap, "path", StrVal(path)), KEY_STORAGE, StrVal(storage))
    IN  IF file.kind = "nofile" THEN Throw(<< "File doesn't exist" >>)
        ELSE IF file.kind = "unreadable" THEN Throw(<< "Couldn't open file" >>)
        ELSE IF file.kind \in {"empty", "malformed"} THEN Throw(<< "illegal value" >>)
        ELSE IF file.kind # "object" THEN Throw(<< "Invalid VM information" >>)
        ELSE LET req == RequiredFrom(file.obj, ret, 1)
             IN  IF ~req.ok THEN req
                 ELSE Return(OptionalArguments(file.obj, req.map))

(***************************************************************************)
(* State.                                                                  *)
(***************************************************************************)
VARIABLES
    fs,        \* the storage root: what each VM directory holds
    used,      \* the directory names createVM or the initial root has used
    assets,    \* the firmware assets installed beside the application
    m_vms,     \* VMManager::m_vms, the published catalog
    pc,        \* where a running createVM stands ("idle": none runs)
    machine,   \* the Machine createVM works on
    proc,      \* the qemu-img QProcess of createVM
    last,      \* the operation that returned last, and what it returned
    cstage,    \* codec check: what has been applied so far
    cmachine,  \* codec check: the Machine given to machineToJSON
    cdoc,      \* codec check: the bytes given to listEntryForJSON
    cret,      \* codec check: what listEntryForJSON returned or threw
    cback      \* codec check: the Machine fromQml made of the returned map

storeVars == << fs, used, assets, m_vms, pc, machine, proc, last >>
codecVars == << cstage, cmachine, cdoc, cret, cback >>
vars == << fs, used, assets, m_vms, pc, machine, proc, last,
           cstage, cmachine, cdoc, cret, cback >>

(***************************************************************************)
(* The file system under the storage root.  A directory holds hdd.qcow2    *)
(* (hdd), efi.fd (efi), efi_nvram.fd (nvram) and info.json (meta); "none"  *)
(* and NoFile stand for a file that is not there.                          *)
(***************************************************************************)
NoDir == [exists |-> FALSE, hdd |-> "none", efi |-> "none", nvram |-> "none", meta |-> NoFile]
EmptyDir == [NoDir EXCEPT !.exists = TRUE]

AllAssets == { "code_x86_64", "code_aarch64", "vars_i386", "vars_arm" }

\* "%1/efi/%2/code.fd": the firmware code asset of an arch.
CodeAsset(arch) ==
    IF arch = << "x86_64" >> THEN "code_x86_64"
    ELSE IF arch = << "aarch64" >> THEN "code_aarch64"
    ELSE "code_unknown"

\* "%1/share/qemu/edk2-%2-vars.fd": arm for aarch64, i386 for any other arch.
VarsAsset(arch) == IF arch = << "aarch64" >> THEN "vars_arm" ELSE "vars_i386"

\* QFile::copy(asset, target): fails when the asset is missing, the target's
\* directory is missing or the target exists; never overwrites.
CopyOk(asset, dir, target) == asset \in assets /\ dir.exists /\ target = "none"

\* Mutant: the copy without the removal of an existing target before it.
resetEFIFirmware_NoRemove(m, dir, rmOk) ==
    LET efiFw == CodeAsset(m.arch)
    IN  IF ~CopyOk(efiFw, dir, dir.efi)
        THEN [ok |-> FALSE, dir |-> dir, machine |-> m]
        ELSE [ok |-> TRUE, dir |-> [dir EXCEPT !.efi = efiFw],
              machine |-> [m EXCEPT !.flash1 = FilePath(m.storage, "efi.fd")]]

\* VMManager::resetEFIFirmware on directory state dir; rmOk: QFile::remove of
\* an existing target succeeds.  Yields the return value, the directory and
\* the machine.
resetEFIFirmware(m, dir, rmOk) ==
    LET afterRm == IF dir.efi # "none" /\ rmOk THEN [dir EXCEPT !.efi = "none"] ELSE dir
        efiFw == CodeAsset(m.arch)
    IN  IF ~CopyOk(efiFw, afterRm, afterRm.efi)
        THEN [ok |-> FALSE, dir |-> afterRm, machine |-> m]
        ELSE [ok |-> TRUE, dir |-> [afterRm EXCEPT !.efi = efiFw],
              machine |-> [m EXCEPT !.flash1 = FilePath(m.storage, "efi.fd")]]

\* VMManager::resetEFINVRAM, likewise.
resetEFINVRAM(m, dir, rmOk) ==
    LET afterRm == IF dir.nvram # "none" /\ rmOk THEN [dir EXCEPT !.nvram = "none"] ELSE dir
        efiVars == VarsAsset(m.arch)
    IN  IF ~CopyOk(efiVars, afterRm, afterRm.nvram)
        THEN [ok |-> FALSE, dir |-> afterRm, machine |-> m]
        ELSE [ok |-> TRUE, dir |-> [afterRm EXCEPT !.nvram = efiVars],
              machine |-> [m EXCEPT !.flash2 = FilePath(m.storage, "efi_nvram.fd")]]

\* What an operation returned: op its name, dir the directory it worked on
\* (0: none), ok its return value, arch the machine's arch, target what a
\* firmware reset found at its target: "absent", "removed" (an existing file,
\* removed) or "stuck" (an existing file, its removal failed); "n/a" for the
\* other operations.
Returned(op, d, ok, arch, target) ==
    [op |-> op, dir |-> d, ok |-> ok, arch |-> arch, target |-> target]

\* What lines 200-205 and 225-230 do with the target of a copy.
TargetFate(content, rmOk) ==
    IF content = "none" THEN "absent" ELSE IF rmOk THEN "removed" ELSE "stuck"

(***************************************************************************)
(* refreshVMs: the scan of the storage root, directory after directory.    *)
(***************************************************************************)
\* Mutant: the first throwing file ends the scan (the exception leaves the
\* loop instead of continuing it).
RECURSIVE ScanFrom_StopsAtFailure(_, _)
ScanFrom_StopsAtFailure(d, vms) ==
    IF d > MaxDirs THEN vms
    ELSE IF ~fs[d].exists \/ fs[d].meta = NoFile THEN ScanFrom_StopsAtFailure(d + 1, vms)
    ELSE LET vm == listEntryForJSON(fs[d].meta, FilePath(DirPath(d), "info.json"), DirPath(d))
         IN  IF ~vm.ok THEN vms
             ELSE ScanFrom_StopsAtFailure(d + 1, Append(vms, vm.map))

\* The loop of lines 74-83 from directory d on: a throwing file is skipped.
RECURSIVE ScanFrom(_, _)
ScanFrom(d, vms) ==
    IF d > MaxDirs THEN vms
    ELSE IF ~fs[d].exists \/ fs[d].meta = NoFile THEN ScanFrom(d + 1, vms)
    ELSE LET vm == listEntryForJSON(fs[d].meta, FilePath(DirPath(d), "info.json"), DirPath(d))
         IN  IF ~vm.ok THEN ScanFrom(d + 1, vms)
             ELSE ScanFrom(d + 1, Append(vms, vm.map))

RefreshVMs ==
    /\ pc = "idle"
    /\ m_vms' = ScanFrom(1, << >>)
    /\ last' = Returned("refreshVMs", 0, TRUE, << >>, "n/a")
    /\ UNCHANGED << fs, used, assets, pc, machine, proc >>
    /\ UNCHANGED codecVars

(***************************************************************************)
(* createVM, in the steps between which the storage root can be observed:  *)
(* the start of qemu-img, the end of the wait for it, the two firmware     *)
(* copies, the metadata file.  The caller is blocked throughout, so no     *)
(* other operation of the VMManager runs before createVM has returned.     *)
(***************************************************************************)
SetDir(d, dir) == [fs EXCEPT ![d] = dir]

\* Lines 111-143: a fresh directory, and qemu-img started in it.  started:
\* whether the qemu-img binary could be started.  QUuid::createUuid() gives a
\* name never used before; the names are handed out in the order 1, 2, ...
CreateStart(draft, d, started) ==
    /\ pc = "idle"
    /\ d \notin used
    /\ \A e \in Dirs : e < d => e \in used
    /\ used' = used \cup {d}
    /\ machine' = [draft EXCEPT !.storage = DirPath(d)]
    /\ fs' = SetDir(d, EmptyDir)
    /\ proc' = IF started THEN "running" ELSE "failedToStart"
    /\ pc' = "disk"
    /\ last' = Returned("createVM.start", d, FALSE, draft.arch, "n/a")
    /\ UNCHANGED << assets, m_vms >>
    /\ UNCHANGED codecVars

\* The qemu-img subprocess finishes: with status 0 and the image written, or
\* with another status.
ProcExit(status) ==
    /\ pc = "disk"
    /\ proc = "running"
    /\ proc' = IF status = 0 THEN "exited0" ELSE "exitedNonZero"
    /\ fs' = IF status = 0
             THEN SetDir(DirOf(machine.storage), [fs[DirOf(machine.storage)] EXCEPT !.hdd = "image"])
             ELSE fs
    /\ UNCHANGED << used, assets, m_vms, pc, machine, last >>
    /\ UNCHANGED codecVars

\* QProcess::exitCode(): the status of a process that finished, and 0 for
\* one that did not (still running, or never started).
ExitCode == IF proc = "exitedNonZero" THEN 1 ELSE 0

\* Lines 144-151.  waitForFinished() returns when the process has finished
\* or failed to start, or after its default 30 s with the process still
\* running; its result is not looked at.  Leaving the block (or the function)
\* destroys the QProcess, which kills a process still running: killedWrote
\* tells whether that process had written the image file by then.
CreateDisk(killedWrote) ==
    /\ pc = "disk"
    /\ LET d == DirOf(machine.storage)
       IN  IF ExitCode # 0
           THEN /\ pc' = "idle"
                /\ last' = Returned("createVM", d, FALSE, machine.arch, "n/a")
                /\ machine' = NewMachine
                /\ UNCHANGED fs
           ELSE /\ machine' = [machine EXCEPT !.hdd = FilePath(machine.storage, "hdd.qcow2")]
                /\ fs' = IF proc = "running" /\ killedWrote
                         THEN SetDir(d, [fs[d] EXCEPT !.hdd = "image"])
                         ELSE fs
                /\ pc' = "firmware"
                /\ UNCHANGED last
    /\ proc' = "none"
    /\ UNCHANGED << used, assets, m_vms >>
    /\ UNCHANGED codecVars

\* Lines 165-169.
CreateFirmware ==
    /\ pc = "firmware"
    /\ LET d == DirOf(machine.storage)
           r == resetEFIFirmware(machine, fs[d], TRUE)
       IN  /\ fs' = SetDir(d, r.dir)
           /\ IF r.ok
              THEN pc' = "nvram" /\ machine' = r.machine /\ UNCHANGED last
              ELSE /\ pc' = "idle"
                   /\ machine' = NewMachine
                   /\ last' = Returned("createVM", d, FALSE, machine.arch, "n/a")
    /\ UNCHANGED << used, assets, m_vms, proc >>
    /\ UNCHANGED codecVars

\* Lines 171-175.
CreateNVRAM ==
    /\ pc = "nvram"
    /\ LET d == DirOf(machine.storage)
           r == resetEFINVRAM(machine, fs[d], TRUE)
       IN  /\ fs' = SetDir(d, r.dir)
           /\ IF r.ok
              THEN pc' = "metadata" /\ machine' = r.machine /\ UNCHANGED last
              ELSE /\ pc' = "idle"
                   /\ machine' = NewMachine
                   /\ last' = Returned("createVM", d, FALSE, machine.arch, "n/a")
    /\ UNCHANGED << used, assets, m_vms, proc >>
    /\ UNCHANGED codecVars

\* Lines 177-189.  openOk: info.json could be opened for writing.
CreateMetadata(openOk) ==
    /\ pc = "metadata"
    /\ LET d == DirOf(machine.storage)
       IN  /\ fs' = IF openOk THEN SetDir(d, [fs[d] EXCEPT !.meta = machineToJSON(machine)]) ELSE fs
           /\ last' = Returned("createVM", d, openOk, machine.arch, "n/a")
    /\ pc' = "idle"
    /\ machine' = NewMachine
    /\ UNCHANGED << used, assets, m_vms, proc >>
    /\ UNCHANGED codecVars

(***************************************************************************)
(* editVM, deleteVM and the firmware resets called on their own.           *)
(***************************************************************************)
\* Mutant: the file is emptied before it is known to be writable, so a failed
\* open leaves an empty metadata file.
EditVM_TruncatesFirst(m, openOk) ==
    /\ pc = "idle"
    /\ LET d == DirOf(m.storage)
           opened == d # 0 /\ fs[d].exists /\ openOk
       IN  /\ fs' = IF opened THEN SetDir(d, [fs[d] EXCEPT !.meta = machineToJSON(m)])
                    ELSE IF d # 0 /\ fs[d].exists THEN SetDir(d, [fs[d] EXCEPT !.meta = EmptyDoc])
                    ELSE fs
           /\ last' = Returned("editVM", d, opened, m.arch, "n/a")
    /\ UNCHANGED << used, assets, m_vms, pc, machine, proc >>
    /\ UNCHANGED codecVars

\* Mutant: the directory is made when it is not there (mkpath, as createVM
\* does), so the file can be written into a directory that was deleted.
EditVM_MakesDirectory(m, openOk) ==
    /\ pc = "idle"
    /\ LET d == DirOf(m.storage)
           opened == d # 0 /\ openOk
       IN  /\ fs' = IF opened
                    THEN SetDir(d, [fs[d] EXCEPT !.exists = TRUE, !.meta = machineToJSON(m)])
                    ELSE fs
           /\ last' = Returned("editVM", d, opened, m.arch, "n/a")
    /\ UNCHANGED << used, assets, m_vms, pc, machine, proc >>
    /\ UNCHANGED codecVars

\* VMManager::editVM.  openOk: info.json could be opened for writing; it
\* cannot when its directory is not there.
EditVM(m, openOk) ==
    /\ pc = "idle"
    /\ LET d == DirOf(m.storage)
           opened == d # 0 /\ fs[d].exists /\ openOk
       IN  /\ fs' = IF opened THEN SetDir(d, [fs[d] EXCEPT !.meta = machineToJSON(m)]) ELSE fs
           /\ last' = Returned("editVM", d, opened, m.arch, "n/a")
    /\ UNCHANGED << used, assets, m_vms, pc, machine, proc >>
    /\ UNCHANGED codecVars

\* The files of a directory.
FileNames == { "hdd", "efi", "nvram", "meta" }

HasFile(dir, f) ==
    CASE f = "hdd" -> dir.hdd # "none"
      [] f = "efi" -> dir.efi # "none"
      [] f = "nvram" -> dir.nvram # "none"
      [] f = "meta" -> dir.meta # NoFile

\* QDir::removeRecursively: removes what it can and returns false when
\* something stayed; kept: the files that could not be removed.
removeRecursively(dir, kept) ==
    IF ~dir.exists THEN [ok |-> TRUE, dir |-> dir]
    ELSE IF kept = {} THEN [ok |-> TRUE, dir |-> NoDir]
    ELSE [ok |-> FALSE,
          dir |-> [exists |-> TRUE,
                   hdd |-> IF "hdd" \in kept THEN dir.hdd ELSE "none",
                   efi |-> IF "efi" \in kept THEN dir.efi ELSE "none",
                   nvram |-> IF "nvram" \in kept THEN dir.nvram ELSE "none",
                   meta |-> IF "meta" \in kept THEN dir.meta ELSE NoFile]]

\* VMManager::deleteVM
DeleteVM(m, kept) ==
    /\ pc = "idle"
    /\ LET d == DirOf(m.storage)
       IN  /\ d # 0
           /\ \A f \in kept : HasFile(fs[d], f)
           /\ LET r == removeRecursively(fs[d], kept)
              IN  /\ fs' = SetDir(d, r.dir)
                  /\ last' = Returned("deleteVM", d, r.ok, m.arch, "n/a")
    /\ UNCHANGED << used, assets, m_vms, pc, machine, proc >>
    /\ UNCHANGED codecVars

\* resetEFIFirmware called on its own, on an existing VM.
ResetEFIFirmware(m, rmOk) ==
    /\ pc = "idle"
    /\ LET d == DirOf(m.storage)
       IN  /\ d # 0
           /\ LET r == resetEFIFirmware(m, fs[d], rmOk)
              IN  /\ fs' = SetDir(d, r.dir)
                  /\ last' = Returned("resetEFIFirmware", d, r.ok, m.arch,
                                      TargetFate(fs[d].efi, rmOk))
    /\ UNCHANGED << used, assets, m_vms, pc, machine, proc >>
    /\ UNCHANGED codecVars

\* resetEFINVRAM called on its own, on an existing VM.
ResetEFINVRAM(m, rmOk) ==
    /\ pc = "idle"
    /\ LET d == DirOf(m.storage)
       IN  /\ d # 0
           /\ LET r == resetEFINVRAM(m, fs[d], rmOk)
              IN  /\ fs' = SetDir(d, r.dir)
                  /\ last' = Returned("resetEFINVRAM", d, r.ok, m.arch,
                                      TargetFate(fs[d].nvram, rmOk))
    /\ UNCHANGED << used, assets, m_vms, pc, machine, proc >>
    /\ UNCHANGED codecVars

(***************************************************************************)
(* Inputs of the store, and its specification.                             *)
(***************************************************************************)
\* The record createVM leaves for directory d when every step succeeded.
Created(d) ==
    [NewMachine EXCEPT !.storage = DirPath(d), !.name = << "vm" >>,
                       !.arch = << "x86_64" >>, !.cores = 2, !.mem = 2048,
                       !.hdd = FilePath(DirPath(d), "hdd.qcow2"),
                       !.flash1 = FilePath(DirPath(d), "efi.fd"),
                       !.flash2 = FilePath(DirPath(d), "efi_nvram.fd")]

\* The machines a caller hands to editVM and deleteVM for directory d: the
\* record of the catalog with its description, cores and a flag edited.
Machines(d) ==
    { [Created(d) EXCEPT !.name = << "renamed" >>, !.cores = 4,
                         !.useVirglrenderer = TRUE] }

\* The drafts handed to createVM: description, arch, cores and mem set.
Drafts ==
    { [NewMachine EXCEPT !.name = << "vm" >>, !.arch = << "x86_64" >>,
                         !.cores = 2, !.mem = 2048] }

\* The installations the model runs on: every firmware asset, or one missing.
Installations ==
    { AllAssets, AllAssets \ {"code_x86_64"}, AllAssets \ {"vars_i386"} }

CodecOff ==
    /\ cstage = "off"
    /\ cmachine = NewMachine
    /\ cdoc = NoFile
    /\ cret = Throw(<< >>)
    /\ cback = NewMachine

StoreIdle ==
    /\ m_vms = << >>
    /\ pc = "idle"
    /\ machine = NewMachine
    /\ proc = "none"
    /\ last = Returned("none", 0, FALSE, << >>, "n/a")

\* The store starts on an empty storage root.
Init ==
    /\ fs = [d \in Dirs |-> NoDir]
    /\ used = {}
    /\ assets \in Installations
    /\ StoreIdle
    /\ CodecOff

\* The outcomes of removeRecursively the model draws: everything is removed,
\* or nothing of what the directory holds can be.
Kept(d) == {{}} \cup { { f \in FileNames : HasFile(fs[d], f) } }

Next ==
    \/ RefreshVMs
    \/ \E draft \in Drafts, d \in Dirs, started \in BOOLEAN : CreateStart(draft, d, started)
    \/ \E status \in {0, 1} : ProcExit(status)
    \/ \E killedWrote \in BOOLEAN : CreateDisk(killedWrote)
    \/ CreateFirmware
    \/ CreateNVRAM
    \/ \E openOk \in BOOLEAN : CreateMetadata(openOk)
    \/ \E d \in Dirs, openOk \in BOOLEAN : \E m \in Machines(d) : EditVM(m, openOk)
    \/ \E d \in Dirs : \E kept \in Kept(d), m \in Machines(d) : DeleteVM(m, kept)

Spec == Init /\ [][Next]_vars

(***************************************************************************)
(* The scan of a storage root that holds any mix of metadata files.        *)
(***************************************************************************)
\* The members machineToJSON writes for the record of directory d, with the
\* required keys of missing left out, arch replaced by archVal, and of the
\* optional keys those of optional, set to true.
DocWith(d, missing, archVal, optional) ==
    LET full == machineToJSON(Created(d)).obj
        keys == ((DOMAIN full) \ (OptionalKeys \cup missing)) \cup optional
    IN  ObjectDoc([k \in keys |->
                    IF k = KEY_ARCH THEN archVal
                    ELSE IF k \in OptionalKeys THEN BoolVal(TRUE)
                    ELSE full[k]])

\* Values of arch: the two of the enumeration, another name, the empty
\* string, and a JSON value that is no string.
ArchValues ==
    { StrVal(<< "x86_64" >>), StrVal(<< "aarch64" >>), StrVal(<< "mips" >>),
      StrVal(<< >>), NumVal }

\* Metadata files of directory d: written by the program, empty, malformed,
\* not an object, unreadable, lacking a required key, and with each value of
\* arch.
ScanDocs(d) ==
    { machineToJSON(Created(d)), EmptyDoc, MalformedDoc, ArrayDoc, UnreadableFile,
      DocWith(d, {KEY_MEM}, StrVal(<< "x86_64" >>), {}) }
    \cup { DocWith(d, {}, a, {KEY_ENABLEFILESHARING}) : a \in ArchValues }

\* What directory d may hold before the program runs: nothing (no such
\* directory), or the provisioned files with one of the metadata files or none.
ScanDir(d) ==
    {NoDir} \cup
    { [EmptyDir EXCEPT !.hdd = "image", !.efi = "code_x86_64",
                       !.nvram = "vars_i386", !.meta = doc] :
        doc \in ScanDocs(d) \cup {NoFile} }

ScanInit ==
    /\ fs \in { f \in [Dirs -> UNION { ScanDir(d) : d \in Dirs }] :
                  \A d \in Dirs : f[d] \in ScanDir(d) }
    /\ used = { d \in Dirs : fs[d].exists }
    /\ assets = AllAssets
    /\ StoreIdle
    /\ CodecOff

ScanNext ==
    \/ RefreshVMs
    \/ \E d \in Dirs : \E kept \in Kept(d), m \in Machines(d) : DeleteVM(m, kept)

ScanSpec == ScanInit /\ [][ScanNext]_vars

(***************************************************************************)
(* The firmware resets called any number of times on the directories.      *)
(***************************************************************************)
\* The machines handed to the resets: the record of d with each arch.
FirmwareMachines(d) ==
    { [Created(d) EXCEPT !.arch = a] : a \in VALID_ARCHES }

FirmwareInit ==
    /\ fs \in [Dirs -> {NoDir, EmptyDir}]
    /\ used = { d \in Dirs : fs[d].exists }
    /\ assets \in { AllAssets, AllAssets \ {"code_aarch64"}, AllAssets \ {"vars_arm"} }
    /\ StoreIdle
    /\ CodecOff

FirmwareNext ==
    \/ \E d \in Dirs, rmOk \in BOOLEAN : \E m \in FirmwareMachines(d) : ResetEFIFirmware(m, rmOk)
    \/ \E d \in Dirs, rmOk \in BOOLEAN : \E m \in FirmwareMachines(d) : ResetEFINVRAM(m, rmOk)

FirmwareSpec == FirmwareInit /\ [][FirmwareNext]_vars

(***************************************************************************)
(* The codec on its own: machineToJSON, listEntryForJSON and fromQml       *)
(* applied to records and to metadata files drawn from bounded sets.       *)
(***************************************************************************)
CodecInts == (0 - MaxInt)..MaxInt \cup { 2048, INT_MAX, 0 - INT_MAX }

\* Valid records: arch of the enumeration, any cores and mem, paths set or
\* empty, any optional booleans.
CodecMachines ==
    { [storage |-> DirPath(1), name |-> n, arch |-> a, cores |-> c, mem |-> mm,
       hdd |-> h, dvd |-> dv, flash1 |-> f[1], flash2 |-> f[2],
       useVirglrenderer |-> o[1], enableFileSharing |-> o[2],
       externalWindowOnly |-> o[3]] :
        n \in { << >>, << "my", " ", "vm" >> },
        a \in VALID_ARCHES,
        c \in CodecInts,
        mm \in { 0, 512, INT_MAX, 0 - INT_MAX },
        h \in { << >>, FilePath(DirPath(1), "hdd.qcow2") },
        dv \in { << >>, << "HubIncoming", "/", "cd.iso" >> },
        f \in { << << >>, << >> >>,
                << FilePath(DirPath(1), "efi.fd"), FilePath(DirPath(1), "efi_nvram.fd") >> },
        o \in { << FALSE, FALSE, FALSE >>, << TRUE, FALSE, TRUE >>, << FALSE, TRUE, FALSE >> } }

\* Metadata files: every subset of the required keys left out, every value
\* of arch, every subset of the optional keys present; and the files that
\* are no object.
CodecDocs ==
    { DocWith(1, missing, a, optional) :
        missing \in SUBSET { RequiredKeys[i] : i \in 1..Len(RequiredKeys) },
        a \in ArchValues,
        optional \in SUBSET OptionalKeys }
    \cup { NoFile, UnreadableFile, EmptyDoc, MalformedDoc, ArrayDoc }

StoreOff ==
    /\ fs = [d \in Dirs |-> NoDir]
    /\ used = {}
    /\ assets = AllAssets
    /\ StoreIdle

CodecInit ==
    /\ StoreOff
    /\ cret = Throw(<< >>)
    /\ cback = NewMachine
    /\ \/ cstage = "machine" /\ cmachine \in CodecMachines /\ cdoc = NoFile
       \/ cstage = "file" /\ cmachine = NewMachine /\ cdoc \in CodecDocs

\* machineToJSON(cmachine), written to the file.
Encode ==
    /\ cstage = "machine"
    /\ cdoc' = machineToJSON(cmachine)
    /\ cstage' = "encoded"
    /\ UNCHANGED << cmachine, cret, cback >>
    /\ UNCHANGED storeVars

\* listEntryForJSON on the file, of directory 1.
Decode ==
    /\ cstage \in { "file", "encoded" }
    /\ cret' = listEntryForJSON(cdoc, FilePath(DirPath(1), "info.json"), DirPath(1))
    /\ cstage' = IF cstage = "file" THEN "decoded" ELSE "redecoded"
    /\ UNCHANGED << cmachine, cdoc, cback >>
    /\ UNCHANGED storeVars

\* fromQml on the returned map.
FromQml ==
    /\ cstage \in { "decoded", "redecoded" }
    /\ cret.ok
    /\ cback' = fromQml(cret.map)
    /\ cstage' = IF cstage = "decoded" THEN "loaded" ELSE "reloaded"
    /\ UNCHANGED << cmachine, cdoc, cret >>
    /\ UNCHANGED storeVars

CodecNext == Encode \/ Decode \/ FromQml

CodecSpec == CodecInit /\ [][CodecNext]_vars

(***************************************************************************)
(* Properties of the codec, checked under CodecSpec.                       *)
(***************************************************************************)
\* The required keys in the order the specification lists them.
SchemaOrder ==
    << "description", "arch", "cores", "mem", "hdd", "dvd", "flash1", "flash2" >>

MissingKeys(doc) == { i \in 1..Len(SchemaOrder) : SchemaOrder[i] \notin DOMAIN doc.obj }

\* The first key of SchemaOrder the object lacks.
FirstMissing(doc) ==
    SchemaOrder[CHOOSE i \in MissingKeys(doc) : \A j \in MissingKeys(doc) : i <= j]

\* arch is a string of the enumeration.
ArchInEnumeration(doc) ==
    /\ "arch" \in DOMAIN doc.obj
    /\ doc.obj["arch"].t = "string"
    /\ doc.obj["arch"].s \in { << "x86_64" >>, << "aarch64" >> }

\* C4: for every valid record r, decoding the bytes machineToJSON(r) wrote
\* succeeds, and the record read back (listEntryForJSON, then fromQml) has the
\* description, arch, cores, mem, hdd, dvd, flash1, flash2 and the three
\* optional booleans of r.
C4_RoundTrip ==
    /\ cstage = "redecoded" => cret.ok
    /\ cstage = "reloaded" =>
          /\ cback.name = cmachine.name
          /\ cback.arch = cmachine.arch
          /\ cback.cores = cmachine.cores
          /\ cback.mem = cmachine.mem
          /\ cback.hdd = cmachine.hdd
          /\ cback.dvd = cmachine.dvd
          /\ cback.flash1 = cmachine.flash1
          /\ cback.flash2 = cmachine.flash2
          /\ cback.useVirglrenderer = cmachine.useVirglrenderer
          /\ cback.enableFileSharing = cmachine.enableFileSharing
          /\ cback.externalWindowOnly = cmachine.externalWindowOnly

\* A record with a negative two-digit cores, the largest mem and the default
\* booleans has gone through encode, decode and fromQml.
C4_Witness ==
    /\ cstage = "reloaded"
    /\ cmachine.cores = -12
    /\ cmachine.mem = INT_MAX
    /\ cmachine.hdd # << >>
    /\ ~cmachine.useVirglrenderer /\ ~cmachine.enableFileSharing /\ ~cmachine.externalWindowOnly
    /\ cback.cores = -12

\* C5 as stated: decoding an object that lacks required keys fails with the
\* error that names the first missing key, and returns no partial record.
C5_NamesFirstMissing ==
    (cstage = "decoded" /\ cdoc.kind = "object" /\ MissingKeys(cdoc) # {}) =>
        /\ ~cret.ok
        /\ cret.map = EmptyMap
        /\ cret.err = << "Missing '", FirstMissing(cdoc), "'" >>

\* C5 amended: decoding an object that lacks required keys fails and returns
\* no partial record; the error names the first missing key, except that when
\* description and arch are present and arch is outside the enumeration the
\* error is the validation error "Invalid architecture".
C5_NamesFirstMissingUnlessArchInvalid ==
    (cstage = "decoded" /\ cdoc.kind = "object" /\ MissingKeys(cdoc) # {}) =>
        /\ ~cret.ok
        /\ cret.map = EmptyMap
        /\ cret.err =
              IF FirstMissing(cdoc) \in { "description", "arch" } \/ ArchInEnumeration(cdoc)
              THEN << "Missing '", FirstMissing(cdoc), "'" >>
              ELSE << "Invalid architecture" >>

\* An object with a valid arch that lacks hdd and dvd has been decoded, and
\* the error names hdd.
C5_Witness ==
    /\ cstage = "decoded"
    /\ cdoc.kind = "object"
    /\ MissingKeys(cdoc) = { 5, 6 }
    /\ ArchInEnumeration(cdoc)
    /\ cret.err = << "Missing '", "hdd", "'" >>

\* C7 as stated: for every successfully decoded file and each of the three
\* optional keys, when the key is absent from the file the returned record
\* carries the field with the value false.
C7_AbsentOptionalIsFalse ==
    (cstage = "decoded" /\ cret.ok) =>
        \A k \in { "useVirglrenderer", "enableFileSharing", "externalWindowOnly" } :
            k \notin DOMAIN cdoc.obj =>
                k \in DOMAIN cret.map /\ cret.map[k] = BoolVal(FALSE)

(***************************************************************************)
(* Properties of the scan, checked under ScanSpec.                         *)
(***************************************************************************)
\* A metadata file that decodes: an object with every required key and an
\* arch of the enumeration.
Decodable(doc) ==
    /\ doc.kind = "object"
    /\ MissingKeys(doc) = {}
    /\ ArchInEnumeration(doc)

\* The entries of the catalog whose storage is directory d.
EntriesOf(d) ==
    { i \in 1..Len(m_vms) :
        "storage" \in DOMAIN m_vms[i] /\ m_vms[i]["storage"] = StrVal(DirPath(d)) }

\* C1: the catalog refreshVMs publishes holds exactly one entry for every
\* metadata file that decodes and none for a file that does not (empty,
\* malformed, no object, a required key missing, an invalid arch), wherever
\* the failing files stand in the order of the scan.
C1_CatalogIsTheDecodableFiles ==
    last.op = "refreshVMs" =>
        /\ \A d \in Dirs :
              Cardinality(EntriesOf(d)) =
                  IF fs[d].exists /\ Decodable(fs[d].meta) THEN 1 ELSE 0
        /\ Len(m_vms) = Cardinality({ d \in Dirs : fs[d].exists /\ Decodable(fs[d].meta) })

\* A scan met an empty metadata file first and a valid one after it, and
\* published the valid one alone.
C1_Witness ==
    /\ last.op = "refreshVMs"
    /\ fs[1].exists /\ fs[1].meta = EmptyDoc
    /\ fs[2].exists /\ Decodable(fs[2].meta)
    /\ Cardinality(EntriesOf(2)) = 1
    /\ Cardinality(EntriesOf(1)) = 0

\* C6: a metadata file with every required key decodes when arch is
\* "x86_64" or "aarch64" and fails with "Invalid architecture" for any other
\* arch (another name, the empty string, a value that is no string); after a
\* scan the catalog has an entry for such a file exactly when its arch is of
\* the enumeration.
C6_ArchValidation ==
    \A d \in Dirs :
        (fs[d].exists /\ fs[d].meta.kind = "object" /\ MissingKeys(fs[d].meta) = {}) =>
            LET r == listEntryForJSON(fs[d].meta, FilePath(DirPath(d), "info.json"), DirPath(d))
            IN  /\ ArchInEnumeration(fs[d].meta) => r.ok
                /\ ~ArchInEnumeration(fs[d].meta) =>
                      ~r.ok /\ r.err = << "Invalid architecture" >>
                /\ last.op = "refreshVMs" =>
                      (EntriesOf(d) # {} <=> ArchInEnumeration(fs[d].meta))

\* A scan met a file whose arch is "mips" and one whose arch is "aarch64",
\* and listed the second alone.
C6_Witness ==
    /\ last.op = "refreshVMs"
    /\ fs[1].exists /\ fs[1].meta.kind = "object" /\ MissingKeys(fs[1].meta) = {}
    /\ fs[1].meta.obj["arch"] = StrVal(<< "mips" >>)
    /\ fs[2].exists /\ fs[2].meta.kind = "object" /\ MissingKeys(fs[2].meta) = {}
    /\ fs[2].meta.obj["arch"] = StrVal(<< "aarch64" >>)
    /\ EntriesOf(1) = {}
    /\ EntriesOf(2) # {}

(***************************************************************************)
(* Properties of the firmware resets, checked under FirmwareSpec.          *)
(***************************************************************************)
\* The asset each reset copies, by the machine's arch.
SourceAsset(op, arch) ==
    IF op = "resetEFIFirmware"
    THEN (IF arch = << "aarch64" >> THEN "code_aarch64" ELSE "code_x86_64")
    ELSE (IF arch = << "aarch64" >> THEN "vars_arm" ELSE "vars_i386")

\* The file each reset writes.
TargetFile(op, dir) == IF op = "resetEFIFirmware" THEN dir.efi ELSE dir.nvram

C2_MetadataWrittenLast ==
    /\ pc # "idle" => fs[DirOf(machine.storage)].meta = NoFile
    /\ (pc = "idle" /\ last.op = "createVM") =>
          IF last.ok
          THEN /\ fs[last.dir].meta # NoFile
               /\ fs[last.dir].hdd # "none"
               /\ fs[last.dir].efi # "none"
               /\ fs[last.dir].nvram # "none"
          ELSE fs[last.dir].meta = NoFile

\* C9 as stated: createVM leaves the disk step only when the qemu-img
\* subprocess has finished; it goes on (sets the hdd path, starts the
\* firmware copies) only when the subprocess finished with status 0, and
\* returns failure after any other outcome.
C9_WaitsForSubprocess ==
    [][ (pc = "disk" /\ pc' # "disk") =>
            /\ proc # "running"
            /\ IF proc = "exited0"
               THEN pc' = "firmware" /\ machine'.hdd = FilePath(machine.storage, "hdd.qcow2")
               ELSE pc' = "idle" /\ last'.op = "createVM" /\ ~last'.ok ]_vars

\* C3: when deleteVM returns success for an existing directory, the
\* directory and all it held is gone; a directory that is gone never comes
\* back, whatever is created, edited or deleted after; and every catalog
\* refreshVMs publishes has no entry for a directory that is gone and one
\* entry for every other directory with a decodable metadata file.
C3_DeletedStaysGone ==
    [][ /\ (last'.op = "deleteVM" /\ last'.ok) => fs'[last'.dir] = NoDir
        /\ \A d \in used : ~fs[d].exists => ~fs'[d].exists
        /\ last'.op = "refreshVMs" =>
              \A d \in Dirs :
                 Cardinality({ i \in 1..Len(m_vms') :
                                 m_vms'[i]["storage"] = StrVal(DirPath(d)) }) =
                     IF fs'[d].exists /\ Decodable(fs'[d].meta) THEN 1 ELSE 0 ]_vars

\* Directory 1 was created and then deleted, directory 2 holds a VM, and the
\* catalog of the scan that followed holds directory 2 alone.
C3_Witness ==
    /\ last.op = "refreshVMs"
    /\ 1 \in used /\ fs[1] = NoDir
    /\ fs[2].exists /\ Decodable(fs[2].meta)
    /\ EntriesOf(1) = {}
    /\ Cardinality(EntriesOf(2)) = 1
    /\ Len(m_vms) = 1

\* C10: editVM changes nothing but the metadata file of the record's
\* directory, whose whole content becomes machineToJSON(record); the disk
\* image, the firmware files and every other directory stay as they are.
\* When the file cannot be opened editVM returns failure and the storage
\* root stays as it is.
C10_EditWritesOnlyMetadata ==
    [][ last'.op = "editVM" =>
            /\ \A e \in Dirs : e # last'.dir => fs'[e] = fs[e]
            /\ last'.dir # 0 =>
                  /\ fs'[last'.dir].exists = fs[last'.dir].exists
                  /\ fs'[last'.dir].hdd = fs[last'.dir].hdd
                  /\ fs'[last'.dir].efi = fs[last'.dir].efi
                  /\ fs'[last'.dir].nvram = fs[last'.dir].nvram
            /\ last'.ok =>
                  \E m \in Machines(last'.dir) : fs'[last'.dir].meta = machineToJSON(m)
            /\ ~last'.ok => fs' = fs ]_vars

\* An edit has rewritten the metadata of a created VM, beside its disk image
\* and firmware files, with another VM directory on disk.
C10_Witness ==
    /\ last.op = "editVM"
    /\ last.ok
    /\ last.dir = 1
    /\ fs[1].meta \in { machineToJSON(m) : m \in Machines(1) }
    /\ fs[1].hdd = "image" /\ fs[1].efi = "code_x86_64" /\ fs[1].nvram = "vars_i386"
    /\ fs[2].exists /\ fs[2].meta = machineToJSON(Created(2))

====
